---- MODULE Spec2Model ----
(***************************************************************************)
(* Verification model of the cryptanalysis engine of cryptolab:            *)
(*   - cryptolab/utils/anneal.py      (simulated annealing optimizer)      *)
(*   - cryptolab/utils/hill_climb.py  (multi-restart hill climbing)        *)
(*   - cryptolab/scoring/ngram.py, words.py (lazily loaded score tables)   *)
(*                                                                         *)
(* The optimizers are generic over four caller-supplied callbacks.  The    *)
(* callbacks decrypt and score are deterministic functions fixed for one   *)
(* call of the optimizer; key_gen, the annealing mutate and random() are   *)
(* random and are modelled as nondeterministic choices.  Scores are floats *)
(* in the code; the optimizers only compare them, so they are modelled as  *)
(* small integers (NaN is outside the Scorer contract and not modelled).   *)
(*                                                                         *)
(* Four specifications share the variables: Spec (one optimizer call),     *)
(* SpecLoad (threads loading the score tables lazily), SpecNgram (one      *)
(* _NgramScorer loading a concrete resource file and scoring a text) and   *)
(* SpecWords (the segmentation of a text by a loaded _WordScorer).         *)
(***************************************************************************)
EXTENDS Integers, Sequences, FiniteSets, TLC

\* ---------------------------------------------------------------- bounds
NKeys == 3          \* size of the key space handed to the optimizers
MaxScore == 2       \* scores range over 0..MaxScore
MaxSteps == 2       \* anneal: max_steps ranges over 0..MaxSteps
MaxTemp == 2        \* anneal: temp ranges over 1..MaxTemp
MaxRestarts == 2    \* hill_climb: restarts ranges over 0..MaxRestarts
MaxIter == 2        \* hill_climb: iterations ranges over 0..MaxIter
NThreads == 2       \* threads that call score / analyze concurrently

\* anneal's stop threshold and cooling rate (rate = RateNum / RateDen < 1)
Limit == 2
RateNum == 1
RateDen == 2

Keys == 1..NKeys
Scores == 0..MaxScore

\* the outcome of a decrypt call that raises
Raises == "!"
TextNames == <<"A", "B", "C", "D", "E">>
\* decryption is deterministic: key k, when valid, yields its own plaintext
TextOf(k) == TextNames[k]
AllTexts == {""} \cup {TextOf(k) : k \in Keys}

VARIABLES
    \* ---- the call and its arguments (fixed during one call)
    call,        \* "anneal" or "hill_climb"
    decrypt,     \* decrypt(ciphertext, key): Raises, "" or a plaintext
    score,       \* score(text) when the scorer does not raise
    scoreErr,    \* the texts on which the scorer raises
    temp, max_steps,                 \* anneal's keyword arguments
    restarts, try_all, iterations,   \* hill_climb's keyword arguments
    \* ---- locals of anneal / hill_climb._single_restart
    pc, key, text, best, current, i,
    best_i, nbrs, it, r, top, result,
    \* ---- history of the run (not program state)
    seenMax,     \* the highest score of any candidate decrypted and seenMax so far
    mutCalls,    \* mutate calls of the whole call
    ev,          \* what the last step did
    ended,       \* how the restart that produced top ended
    \* ---- the lazily loaded score tables and the threads that use them
    ngram,       \* per n-gram scorer: _loaded, _data, _floor, _ngram_len
    words,       \* the word scorer: _loaded, _Pw, _Pw2, _unseen, _n
    lock,        \* per Lock object: the thread that holds it, 0 when free
    tpc,         \* per thread: where it is in score / analyze / _load_data
    tab,         \* per thread: the scorer it calls
    ret,         \* per thread: the table fields its score was computed from
    loads        \* per scorer: how often the loading body of _load_data was entered

VARIABLES
    \* ---- one _NgramScorer instance, its resource file and one score(text) call
    file,        \* the lines of the resource file, each <<token, count>>
    data,        \* _data, a dict: the <<key, value>> pairs in insertion order
    nsum,        \* the local n of _load_data: the sum of the counts read
    floor,       \* _floor
    ngram_len,   \* _ngram_len
    loaded,      \* _loaded
    ntext,       \* the text argument of score
    total,       \* the local total of score
    wi,          \* the loop index i of score
    npc          \* where the call is: "call", "loop", "done", "raised" ("idle": no call)

VARIABLES
    \* ---- the loaded word scorer and one call of a public word function
    entry,       \* the public function called: word_analyze, word_score, word_segments
    warg,        \* the text given to the public function
    wtext,       \* the text that reaches _WordScorer.analyze
    Pw,          \* _Pw: word -> log10 probability
    Pw2,         \* _Pw2: "prev word" -> log10 conditional probability
    wres,        \* what _score_impl returned: <<score, segmentation>>
    wpc          \* where the call is: "call", "analyze", "done", "raised" ("idle": no call)

VARIABLES
    \* ---- one call of _WordScorer._cPw on the loaded scorer
    cword,       \* the word argument
    cprev,       \* the prev argument
    cret,        \* the value returned
    cpc,         \* "call", "done" ("idle": no call)
    \* ---- one VIC fill / unfill round trip (transposition/disrupted.py)
    vkey,        \* the transposition key, a list of column indexes
    vtext,       \* the plaintext given to _vic_fill
    vfilled,     \* what _vic_fill returned
    vout,        \* what _vic_unfill returned for it
    vpc          \* "call", "filled", "done" ("idle": no call)

env == <<call, decrypt, score, scoreErr, temp, max_steps, restarts, try_all, iterations>>
locals == <<pc, key, text, best, current, i, best_i, nbrs, it, r, top, result>>
hist == <<seenMax, mutCalls, ev, ended>>
optVars == <<env, locals, hist>>
tables == <<ngram, words, lock, tpc, tab, ret, loads>>
ngvars == <<file, data, nsum, floor, ngram_len, loaded, ntext, total, wi, npc>>
wsvars == <<entry, warg, wtext, Pw, Pw2, wres, wpc>>
cpvars == <<cword, cprev, cret, cpc>>
vicvars == <<vkey, vtext, vfilled, vout, vpc>>
scoring == <<ngvars, wsvars, cpvars, vicvars>>
vars == <<optVars, tables, scoring>>

\* a (score, text, key) triple; the code indexes it 0..2, the model 1..3
NoCand == <<0, "", 0>>
Cand(t, k) == <<score[t], t, k>>

Range(f) == {f[x] : x \in DOMAIN f}
Max(a, b) == IF a >= b THEN a ELSE b
\* seenMax before any candidate was scored
NoScore == 0 - 1

\* ------------------------------------------------------------ environment
DecryptTabs ==
    {f \in [Keys -> {Raises, ""} \cup {TextOf(k) : k \in Keys}] :
        \A k \in Keys : f[k] \in {Raises, "", TextOf(k)}}

\* the texts that reach the scorer
Produced(d) == Range(d) \ {Raises}

\* The optimizers only compare scores, so the score tables are enumerated up
\* to order: the scores of the scored texts fill 0..m without a gap.  Texts
\* that are never scored successfully have no score; their entry is 0.
ScoreTabs(d, errs) ==
    LET scoredTexts == Produced(d) \ errs
    IN  {g \in [AllTexts -> Scores] :
            /\ \A t \in AllTexts \ scoredTexts : g[t] = 0
            /\ \A t \in scoredTexts :
                  g[t] = 0 \/ \E u \in scoredTexts : g[u] = g[t] - 1}

InitEnv ==
    /\ decrypt \in DecryptTabs
    /\ scoreErr \in SUBSET Produced(decrypt)
    /\ score \in ScoreTabs(decrypt, scoreErr)

InitLocals ==
    /\ pc = "start"
    /\ key = 0
    /\ text = ""
    /\ best = NoCand
    /\ current = NoCand
    /\ i = 0
    /\ best_i = NoCand
    /\ nbrs = <<>>
    /\ it = 0
    /\ r = 0
    /\ top = NoCand
    /\ result = <<>>
    /\ seenMax = NoScore
    /\ mutCalls = 0
    /\ ev = "call"
    /\ ended = "none"

InitAnneal ==
    /\ call = "anneal"
    /\ temp \in 1..MaxTemp
    /\ max_steps \in 0..MaxSteps
    /\ restarts = 0
    /\ try_all = FALSE
    /\ iterations = 0

InitHill ==
    /\ call = "hill_climb"
    /\ temp = 1
    /\ max_steps = 0
    /\ restarts \in 0..MaxRestarts
    /\ try_all \in BOOLEAN
    /\ iterations \in 0..MaxIter

\* ------------------------------------------------------ score tables
Threads == 1..NThreads
\* two of the module-level n-gram scorers and the module-level word scorer
NgramTables == {"bigram", "trigram"}
Tables == NgramTables \cup {"words"}
\* `_lock: Lock = Lock()` is a dataclass default: every _NgramScorer instance
\* gets the same Lock object, and _WordScorer has one of its own
LockOf(t) == IF t \in NgramTables THEN "ngram_lock" ELSE "words_lock"
Locks == {LockOf(t) : t \in Tables}
\* the token length of a table's resource file
Order(t) == IF t = "bigram" THEN 2 ELSE 3

\* A mapping filled from a resource file is "empty" (as constructed), "raw"
\* (the counts of the whole file), "log" (converted to log10), "partial" (the
\* counts of a prefix of the file, left by a read that failed), "dirty" (counts
\* added onto entries an earlier attempt left) or "corrupt" (dirty, converted).
NewNgram == [loaded |-> FALSE, data |-> "empty", floor |-> "NaN", ngram_len |-> 0]
NewWords == [loaded |-> FALSE, Pw |-> "empty", Pw2 |-> "empty", unseen |-> "empty", n |-> 0]

InitTables ==
    /\ ngram = [t \in NgramTables |-> NewNgram]
    /\ words = NewWords
    /\ lock = [l \in Locks |-> 0]
    /\ tpc = [th \in Threads |-> "idle"]
    /\ tab = [th \in Threads |-> "none"]
    /\ ret = [th \in Threads |-> <<>>]
    /\ loads = [t \in Tables |-> 0]

\* the n-gram scorer instance while no call of it is modelled
NgramIdle ==
    /\ file = <<>>
    /\ data = <<>>
    /\ nsum = 0
    /\ floor = "NaN"
    /\ ngram_len = 0
    /\ loaded = FALSE
    /\ ntext = <<>>
    /\ total = <<1, 1>>
    /\ wi = 0
    /\ npc = "idle"

\* the word scorer while no call of it is modelled
WordsIdle ==
    /\ entry = "none"
    /\ warg = <<>>
    /\ wtext = <<>>
    /\ Pw = <<>>
    /\ Pw2 = <<>>
    /\ wres = <<>>
    /\ wpc = "idle"

\* no call of _cPw is modelled
CpwIdle ==
    /\ cword = <<>>
    /\ cprev = <<>>
    /\ cret = 0
    /\ cpc = "idle"

\* no VIC round trip is modelled
VicIdle ==
    /\ vkey = <<>>
    /\ vtext = <<>>
    /\ vfilled = <<>>
    /\ vout = <<>>
    /\ vpc = "idle"

ScoringIdle == NgramIdle /\ WordsIdle /\ CpwIdle /\ VicIdle

Init == InitEnv /\ InitLocals /\ (InitAnneal \/ InitHill) /\ InitTables /\ ScoringIdle

\* ------------------------------------------- the initial-key procedure
\* key = key_gen() before the while loop
KeyGen ==
    /\ pc = "start"
    /\ \E k \in Keys : key' = k
    /\ text' = ""
    /\ pc' = "init"
    /\ ev' = "key_gen"
    /\ UNCHANGED <<tables, scoring, env, best, current, i, best_i, nbrs, it, r, top, result, seenMax, mutCalls, ended>>

\* one pass of `while text == "": try: text = decrypt(...) except: key = key_gen()`
InitKey ==
    /\ pc = "init"
    /\ text = ""
    /\ IF decrypt[key] = Raises
       THEN /\ \E k \in Keys : key' = k
            /\ text' = text
            /\ ev' = "key_gen"
       ELSE /\ text' = decrypt[key]
            /\ key' = key
            /\ ev' = IF decrypt[key] = "" THEN "init_empty" ELSE "init_ok"
    /\ UNCHANGED <<tables, scoring, env, pc, best, current, i, best_i, nbrs, it, r, top, result, seenMax, mutCalls, ended>>

\* ------------------------------------------------------------- anneal
\* temp_i < limit for temp_i = temp * rate**i, in exact arithmetic
Cold(j) == temp * (RateNum ^ j) < Limit * (RateDen ^ j)

\* `sc > current[0] or random() < bound`, bound = exp(min((sc - current[0]) / temp_i, 700)):
\* bound is 1.0 when the scores are equal, so the draw in [0, 1) is always below it;
\* for a lower score bound lies in [0, 1) and the draw decides.
Accepts(sc, cur, draw) == sc > cur[1] \/ sc = cur[1] \/ draw

\* faulty variants of NewBest: best follows current / a tie replaces best
NewBest_Always(cand, b) == cand
NewBest_NonStrict(cand, b) == IF cand[1] >= b[1] THEN cand ELSE b

\* `if sc > best[0]: best = current`
NewBest(cand, b) == IF cand[1] > b[1] THEN cand ELSE b

\* best = (score(text), text, key); current = best
AnnealStart ==
    /\ call = "anneal"
    /\ pc = "init"
    /\ text # ""
    /\ IF text \in scoreErr
       THEN /\ pc' = "raised"
            /\ ev' = "init_score_raise"
            /\ UNCHANGED <<best, current, seenMax>>
       ELSE /\ best' = Cand(text, key)
            /\ current' = Cand(text, key)
            /\ seenMax' = Max(seenMax, score[text])
            /\ pc' = "loop"
            /\ ev' = "start"
    /\ i' = 0
    /\ UNCHANGED <<tables, scoring, env, key, text, best_i, nbrs, it, r, top, result, mutCalls, ended>>

\* faulty variant of AnnealSkip: the failed step is not counted
AnnealSkip_NotCounted ==
    /\ i' = i
    /\ ev' = "skip_decrypt"
    /\ UNCHANGED <<pc, text, best, current, result, seenMax>>

\* faulty variant of AnnealSkip: the decrypt failure is not caught
AnnealSkip_Propagates ==
    /\ pc' = "raised"
    /\ ev' = "skip_decrypt"
    /\ UNCHANGED <<i, text, best, current, result, seenMax>>

\* `except Exception: continue` around decrypt(ciphertext, new_key)
AnnealSkip ==
    /\ i' = i + 1
    /\ ev' = "skip_decrypt"
    /\ UNCHANGED <<pc, text, best, current, result, seenMax>>

\* sc = score(text) stands outside the try block: its exception leaves anneal
AnnealScoreRaises(new_key) ==
    /\ text' = decrypt[new_key]
    /\ pc' = "raised"
    /\ ev' = "loop_score_raise"
    /\ UNCHANGED <<i, best, current, result, seenMax>>

\* the rest of the loop body for a candidate that was decrypted and seenMax
AnnealConsider(new_key, draw) ==
    LET cand == Cand(decrypt[new_key], new_key)
        acc == Accepts(cand[1], current, draw)
        nbest == IF acc THEN NewBest(cand, best) ELSE best
    IN  /\ text' = decrypt[new_key]
        /\ seenMax' = Max(seenMax, cand[1])
        /\ current' = IF acc THEN cand ELSE current
        /\ best' = nbest
        /\ ev' = IF ~acc THEN "reject" ELSE IF nbest # best THEN "new_best" ELSE "accept"
        /\ IF Cold(i)
           THEN /\ pc' = "done"
                /\ result' = <<nbest[2], nbest[3]>>
                /\ i' = i
           ELSE /\ pc' = "loop"
                /\ result' = result
                /\ i' = i + 1

\* one iteration of `for i in range(max_steps)`
AnnealStep ==
    /\ call = "anneal"
    /\ pc = "loop"
    /\ i < max_steps
    /\ \E new_key \in Keys :
          IF decrypt[new_key] = Raises
          THEN AnnealSkip
          ELSE IF decrypt[new_key] \in scoreErr
               THEN AnnealScoreRaises(new_key)
               ELSE \E draw \in BOOLEAN : AnnealConsider(new_key, draw)
    /\ mutCalls' = mutCalls + 1
    /\ UNCHANGED <<tables, scoring, env, key, best_i, nbrs, it, r, top, ended>>

\* the loop ran out of steps: return best[1], best[2]
AnnealReturn ==
    /\ call = "anneal"
    /\ pc = "loop"
    /\ i >= max_steps
    /\ pc' = "done"
    /\ result' = <<best[2], best[3]>>
    /\ ev' = "return"
    /\ UNCHANGED <<tables, scoring, env, key, text, best, current, i, best_i, nbrs, it, r, top, seenMax, mutCalls, ended>>

\* --------------------------------------------------------- hill_climb
\* mutate(key): the neighbours of a key, in a fixed order.  The keys form a
\* line, so a key can be a local optimum without being the global one.
Mutate(k) ==
    (IF k > 1 THEN <<k - 1>> ELSE <<>>) \o (IF k < NKeys THEN <<k + 1>> ELSE <<>>)

\* faulty variant of Improves: a neighbour that only ties is adopted
Improves_OnTie(sc, b) == sc >= b[1]

\* faulty variant of Improves: an improvement by one score level is missed
Improves_ByTwo(sc, b) == sc > b[1] + 1

\* `if sc > best_i[0]` in the scan of one sweep
Improves(sc, b) == sc > b[1]

\* faulty variant of KeepTop: the last restart always wins
KeepTop_Last(res, t) == res

\* `if res[0] > top[0]: top = res`
KeepTop(res, t) == IF res[1] > t[1] THEN res ELSE t

\* best = (score(text), text, key), then the first `for _ in range(iterations)`
HillStart ==
    /\ call = "hill_climb"
    /\ pc = "init"
    /\ text # ""
    /\ IF text \in scoreErr
       THEN /\ pc' = "raised"
            /\ ev' = "init_score_raise"
            /\ UNCHANGED <<best, seenMax>>
       ELSE /\ best' = Cand(text, key)
            /\ seenMax' = Max(seenMax, score[text])
            /\ pc' = "sweep"
            /\ ev' = "start"
    /\ it' = 0
    /\ UNCHANGED <<tables, scoring, env, key, text, current, i, best_i, nbrs, r, top, result, mutCalls, ended>>

\* best_i = best; for new_key in mutate(key): ...
HillSweep ==
    /\ call = "hill_climb"
    /\ pc = "sweep"
    /\ it < iterations
    /\ best_i' = best
    /\ nbrs' = Mutate(key)
    /\ mutCalls' = mutCalls + 1
    /\ pc' = "scan"
    /\ ev' = "mutate"
    /\ UNCHANGED <<tables, scoring, env, key, text, best, current, i, it, r, top, result, seenMax, ended>>

\* `except Exception: continue` around decrypt and score of one neighbour
HillSkip(new_key) ==
    /\ text' = IF decrypt[new_key] = Raises THEN text ELSE decrypt[new_key]
    /\ nbrs' = Tail(nbrs)
    /\ ev' = IF decrypt[new_key] = Raises THEN "skip_decrypt" ELSE "skip_score"
    /\ UNCHANGED <<key, best_i, seenMax>>

\* faulty variant of RestAfterAdopt: the scan goes on after an adoption
RestAfterAdopt_NoBreak(rest) == rest

\* `if not try_all: break`: what is left of the scan after an adoption
RestAfterAdopt(rest) == IF try_all THEN rest ELSE <<>>

\* faulty variant of AdoptedKey: the adopted neighbour does not become the key
AdoptedKey_Kept(new_key) == key

\* `key = new_key`
AdoptedKey(new_key) == new_key

\* a neighbour that was decrypted and seenMax; `break` drops the rest of the scan
HillConsider(new_key) ==
    LET cand == Cand(decrypt[new_key], new_key)
    IN  /\ text' = decrypt[new_key]
        /\ seenMax' = Max(seenMax, cand[1])
        /\ IF Improves(cand[1], best_i)
           THEN /\ best_i' = cand
                /\ key' = AdoptedKey(new_key)
                /\ nbrs' = RestAfterAdopt(Tail(nbrs))
                /\ ev' = "adopt"
           ELSE /\ nbrs' = Tail(nbrs)
                /\ ev' = "pass"
                /\ UNCHANGED <<key, best_i>>

\* one iteration of `for new_key in mutate(key)`
HillScan ==
    /\ call = "hill_climb"
    /\ pc = "scan"
    /\ nbrs # <<>>
    /\ LET new_key == Head(nbrs)
       IN  IF decrypt[new_key] = Raises \/ decrypt[new_key] \in scoreErr
           THEN HillSkip(new_key)
           ELSE HillConsider(new_key)
    /\ UNCHANGED <<tables, scoring, env, pc, best, current, i, it, r, top, result, mutCalls, ended>>

\* _single_restart returns best to hill_climb, which keeps the better of top and it
FinishRestart(how) ==
    /\ top' = IF r = 0 THEN best ELSE KeepTop(best, top)
    /\ key' = 0
    /\ text' = ""
    /\ best' = NoCand
    /\ best_i' = NoCand
    /\ nbrs' = <<>>
    /\ it' = 0
    /\ ended' = IF top' = top /\ r > 0 THEN ended ELSE how
    /\ r' = r + 1
    /\ pc' = IF r + 1 < restarts THEN "start" ELSE "return"
    /\ ev' = IF r > 0 /\ top' # top THEN "new_top" ELSE "restart_end"

\* `if best_i[0] > best[0]: best = best_i` else `break  # no improvement`
HillSweepEnd ==
    /\ call = "hill_climb"
    /\ pc = "scan"
    /\ nbrs = <<>>
    /\ IF best_i[1] > best[1]
       THEN /\ best' = best_i
            /\ it' = it + 1
            /\ pc' = "sweep"
            /\ ev' = "sweep_end"
            /\ UNCHANGED <<key, text, best_i, nbrs, r, top, ended>>
       ELSE FinishRestart("no_improvement")
    /\ UNCHANGED <<tables, scoring, env, current, i, result, seenMax, mutCalls>>

\* `for _ in range(iterations)` ran out: return best
HillExhausted ==
    /\ call = "hill_climb"
    /\ pc = "sweep"
    /\ it >= iterations
    /\ FinishRestart("iterations")
    /\ UNCHANGED <<tables, scoring, env, current, i, result, seenMax, mutCalls>>

\* return top[1], top[2]
HillReturn ==
    /\ call = "hill_climb"
    /\ pc = "return"
    /\ pc' = "done"
    /\ result' = <<top[2], top[3]>>
    /\ ev' = "return"
    /\ UNCHANGED <<tables, scoring, env, key, text, best, current, i, best_i, nbrs, it, r, top, seenMax, mutCalls, ended>>

\* -------------------------------------- lazy loading of the score tables
\* self._loaded of the scorer a thread calls
Loaded(t) == IF t \in NgramTables THEN ngram[t].loaded ELSE words.loaded

\* faulty variant of Release: the lock stays held when the block is left
Release_Never(t) == lock

\* leaving the `with self._lock:` block, by return, fall-through or exception
Release(t) == [lock EXCEPT ![LockOf(t)] = 0]

\* a thread calls score(text) / analyze(text) of one of the scorers
Call(th) ==
    /\ tpc[th] = "idle"
    /\ \E t \in Tables : tab' = [tab EXCEPT ![th] = t]
    /\ tpc' = [tpc EXCEPT ![th] = "check"]
    /\ UNCHANGED <<optVars, scoring, ngram, words, lock, ret, loads>>

\* faulty variant of Check: _load_data is entered whatever _loaded says
Check_AlwaysLocks(th) ==
    /\ tpc[th] = "check"
    /\ tpc' = [tpc EXCEPT ![th] = "acquire"]
    /\ UNCHANGED <<optVars, scoring, ngram, words, lock, tab, ret, loads>>

\* `if not self._loaded: self._load_data()`, read without the lock
Check(th) ==
    /\ tpc[th] = "check"
    /\ tpc' = [tpc EXCEPT ![th] = IF Loaded(tab[th]) THEN "score" ELSE "acquire"]
    /\ UNCHANGED <<optVars, scoring, ngram, words, lock, tab, ret, loads>>

\* faulty variant of Acquire: the lock is taken without waiting for it to be free
Acquire_NoWait(th) ==
    /\ tpc[th] = "acquire"
    /\ lock' = [lock EXCEPT ![LockOf(tab[th])] = th]
    /\ tpc' = [tpc EXCEPT ![th] = "locked"]
    /\ UNCHANGED <<optVars, scoring, ngram, words, tab, ret, loads>>

\* `with self._lock:` blocks until the lock is free
Acquire(th) ==
    /\ tpc[th] = "acquire"
    /\ lock[LockOf(tab[th])] = 0
    /\ lock' = [lock EXCEPT ![LockOf(tab[th])] = th]
    /\ tpc' = [tpc EXCEPT ![th] = "locked"]
    /\ UNCHANGED <<optVars, scoring, ngram, words, tab, ret, loads>>

\* `if self._loaded: return` under the lock; otherwise the loading body starts
Recheck(th) ==
    /\ tpc[th] = "locked"
    /\ IF Loaded(tab[th])
       THEN /\ lock' = Release(tab[th])
            /\ tpc' = [tpc EXCEPT ![th] = "score"]
            /\ loads' = loads
       ELSE /\ lock' = lock
            /\ tpc' = [tpc EXCEPT ![th] = "read"]
            /\ loads' = [loads EXCEPT ![tab[th]] = @ + 1]
    /\ UNCHANGED <<optVars, scoring, ngram, words, tab, ret>>

\* what reading a resource file can do: succeed, fail to open, fail at a line
ReadOutcomes == {"ok", "missing", "malformed"}

\* _data[k] = float(v) overwrites: a complete read leaves the raw counts of the file
NgramAfterRead(d, outcome) ==
    CASE outcome = "ok" -> "raw"
      [] outcome = "missing" -> d
      [] OTHER -> IF d = "empty" THEN "partial" ELSE d

\* _Pw[w] = _Pw.get(w, 0) + count adds to whatever the mapping holds
WordsAfterRead(d, outcome) ==
    CASE outcome = "missing" -> d
      [] outcome = "ok" -> IF d = "empty" THEN "raw" ELSE "dirty"
      [] OTHER -> IF d = "empty" THEN "partial" ELSE "dirty"

\* log10(v / n) over the entries of a mapping
Converted(d) == IF d = "raw" THEN "log" ELSE "corrupt"

\* n-gram: `with ... open() as f: for line in f: ...`; an exception leaves the
\* with-blocks, releases the lock and reaches the caller of score
NgramRead(th) ==
    /\ tpc[th] = "read"
    /\ tab[th] \in NgramTables
    /\ \E outcome \in ReadOutcomes :
          /\ ngram' = [ngram EXCEPT ![tab[th]].data = NgramAfterRead(@, outcome)]
          /\ IF outcome = "ok"
             THEN /\ tpc' = [tpc EXCEPT ![th] = "convert"]
                  /\ lock' = lock
             ELSE /\ tpc' = [tpc EXCEPT ![th] = "raised"]
                  /\ lock' = Release(tab[th])
    /\ UNCHANGED <<optVars, scoring, words, tab, ret, loads>>

\* n-gram: the log10 conversion, then _ngram_len and _floor
NgramConvert(th) ==
    /\ tpc[th] = "convert"
    /\ tab[th] \in NgramTables
    /\ ngram' = [ngram EXCEPT ![tab[th]] =
                    [@ EXCEPT !.data = Converted(@), !.ngram_len = Order(tab[th]), !.floor = "log"]]
    /\ tpc' = [tpc EXCEPT ![th] = "publish"]
    /\ UNCHANGED <<optVars, scoring, words, lock, tab, ret, loads>>

\* words: self._n = n, then the first-order file is read into _Pw
WordsRead1(th) ==
    /\ tpc[th] = "read"
    /\ tab[th] = "words"
    /\ \E outcome \in ReadOutcomes :
          /\ words' = [words EXCEPT !.n = 1, !.Pw = WordsAfterRead(@, outcome)]
          /\ IF outcome = "ok"
             THEN /\ tpc' = [tpc EXCEPT ![th] = "read2"]
                  /\ lock' = lock
             ELSE /\ tpc' = [tpc EXCEPT ![th] = "raised"]
                  /\ lock' = Release(tab[th])
    /\ UNCHANGED <<optVars, scoring, ngram, tab, ret, loads>>

\* words: _Pw is converted, then the second-order file is read into _Pw2
WordsRead2(th) ==
    /\ tpc[th] = "read2"
    /\ \E outcome \in ReadOutcomes :
          /\ words' = [words EXCEPT !.Pw = Converted(@), !.Pw2 = WordsAfterRead(@, outcome)]
          /\ IF outcome = "ok"
             THEN /\ tpc' = [tpc EXCEPT ![th] = "convert"]
                  /\ lock' = lock
             ELSE /\ tpc' = [tpc EXCEPT ![th] = "raised"]
                  /\ lock' = Release(tab[th])
    /\ UNCHANGED <<optVars, scoring, ngram, tab, ret, loads>>

\* words: _Pw2 is converted and _unseen is filled
WordsConvert(th) ==
    /\ tpc[th] = "convert"
    /\ tab[th] = "words"
    /\ words' = [words EXCEPT !.Pw2 = Converted(@), !.unseen = "log"]
    /\ tpc' = [tpc EXCEPT ![th] = "publish"]
    /\ UNCHANGED <<optVars, scoring, ngram, lock, tab, ret, loads>>

\* `self._loaded = True` is the last statement under the lock
Publish(th) ==
    /\ tpc[th] = "publish"
    /\ IF tab[th] \in NgramTables
       THEN /\ ngram' = [ngram EXCEPT ![tab[th]].loaded = TRUE]
            /\ words' = words
       ELSE /\ words' = [words EXCEPT !.loaded = TRUE]
            /\ ngram' = ngram
    /\ lock' = Release(tab[th])
    /\ tpc' = [tpc EXCEPT ![th] = "score"]
    /\ UNCHANGED <<optVars, scoring, tab, ret, loads>>

\* the table fields that the scoring loop / _score_impl reads
Fields(t) ==
    IF t \in NgramTables
    THEN <<ngram[t].ngram_len, ngram[t].data, ngram[t].floor>>
    ELSE <<words.Pw, words.Pw2, words.unseen>>

\* the scoring loop of score, or _score_impl: reads the table, returns a score
Score(th) ==
    /\ tpc[th] = "score"
    /\ ret' = [ret EXCEPT ![th] = Fields(tab[th])]
    /\ tpc' = [tpc EXCEPT ![th] = "done"]
    /\ UNCHANGED <<optVars, scoring, ngram, words, lock, tab, loads>>

\* ------------------------------------------------------- specification
Next ==
    \/ KeyGen
    \/ InitKey
    \/ AnnealStart
    \/ AnnealStep
    \/ AnnealReturn
    \/ HillStart
    \/ HillSweep
    \/ HillScan
    \/ HillSweepEnd
    \/ HillExhausted
    \/ HillReturn

Spec == Init /\ [][Next]_vars

\* the optimizer variables while no optimizer runs
InitNoCall ==
    /\ call = "none"
    /\ decrypt = [k \in Keys |-> Raises]
    /\ score = [t \in AllTexts |-> 0]
    /\ scoreErr = {}
    /\ temp = 1
    /\ max_steps = 0
    /\ restarts = 0
    /\ try_all = FALSE
    /\ iterations = 0

InitLoad == InitNoCall /\ InitLocals /\ InitTables /\ ScoringIdle

NextLoad ==
    \E th \in Threads :
        \/ Call(th)
        \/ Check(th)
        \/ Acquire(th)
        \/ Recheck(th)
        \/ NgramRead(th)
        \/ NgramConvert(th)
        \/ WordsRead1(th)
        \/ WordsRead2(th)
        \/ WordsConvert(th)
        \/ Publish(th)
        \/ Score(th)

SpecLoad == InitLoad /\ [][NextLoad]_vars

\* the steps of a thread inside a call it has made: the interpreter keeps
\* running every thread that is not blocked on a lock
Proceed(th) ==
    \/ Check(th)
    \/ Acquire(th)
    \/ Recheck(th)
    \/ NgramRead(th)
    \/ NgramConvert(th)
    \/ WordsRead1(th)
    \/ WordsRead2(th)
    \/ WordsConvert(th)
    \/ Publish(th)
    \/ Score(th)

\* the loading threads under fair scheduling: a thread that can take a step
\* of its call is not left waiting for ever
SpecLoadFair ==
    InitLoad /\ [][NextLoad]_vars /\ \A th \in Threads : WF_vars(Proceed(th))

\* ------------------------------------- n-gram tables: loading and scoring
MaxLines == 2       \* lines of the resource file: 0..MaxLines
MaxCount == 2       \* the count of a line: 0..MaxCount
MaxText == 3        \* length of the text passed to score: 0..MaxText

\* characters of texts and tokens, and str.upper() on them
Chars == {"A", "B", "a"}
UpperChar(c) == IF c = "a" THEN "A" ELSE c
Upper(s) == [j \in 1..Len(s) |-> UpperChar(s[j])]
\* the tokens of a bigram resource file; one is not upper-case
Tokens == {<<"A", "B">>, <<"B", "A">>, <<"a", "B">>}

SeqsUpTo(S, m) == UNION {[1..l -> S] : l \in 0..m}
Files == SeqsUpTo(Tokens \X (0..MaxCount), MaxLines)
Texts == SeqsUpTo(Chars, MaxText)

Min(a, b) == IF a <= b THEN a ELSE b
\* s[a:b] for 0 <= a: Python clamps the end of a slice to len(s)
Slice(s, a, b) == SubSeq(s, a + 1, Min(b, Len(s)))

\* A float that is a log10 is kept exactly, as the pair <<a, b>> of the
\* quotient a / b it is the log10 of (b > 0): log10 is strictly increasing, so
\* logs compare as their quotients do, and the sum of two logs is the log of
\* the product.  0.0 is log10(1 / 1).
LogOf(a, b) == <<a, b>>
LogZero == <<1, 1>>
LogAdd(x, y) == <<x[1] * y[1], x[2] * y[2]>>
LogLess(x, y) == x[1] * y[2] < y[1] * x[2]

\* dict operations on a sequence of <<key, value>> pairs
DictHas(d, k) == \E j \in 1..Len(d) : d[j][1] = k
DictGet(d, k, default) ==
    IF DictHas(d, k) THEN d[CHOOSE j \in 1..Len(d) : d[j][1] = k][2] ELSE default
DictSet(d, k, v) ==
    IF DictHas(d, k)
    THEN [j \in 1..Len(d) |-> IF d[j][1] = k THEN <<k, v>> ELSE d[j]]
    ELSE Append(d, <<k, v>>)

\* `for line in f: k, v = line.strip().split(); _data[k] = float(v); n += int(v)`
RECURSIVE ReadLines(_, _, _)
ReadLines(f, d, cnt) ==
    IF f = <<>>
    THEN [data |-> d, n |-> cnt]
    ELSE ReadLines(Tail(f), DictSet(d, Head(f)[1], Head(f)[2]), cnt + Head(f)[2])

\* faulty variant of LogFails: log10(0) yields a value instead of raising
LogFails_ZeroAllowed(v, cnt) == cnt = 0 \/ v * cnt < 0

\* log10(v / n) raises ZeroDivisionError for n = 0 and ValueError for v / n <= 0
LogFails(v, cnt) == cnt = 0 \/ v * cnt <= 0

\* the first entry whose conversion raises, 0 when none does
FirstBad(d, cnt) ==
    IF \E j \in 1..Len(d) : LogFails(d[j][2], cnt)
    THEN CHOOSE j \in 1..Len(d) :
            /\ LogFails(d[j][2], cnt)
            /\ \A h \in 1..(j - 1) : ~LogFails(d[h][2], cnt)
    ELSE 0

\* `for k, v in _data.items(): _data[k] = log10(v / n)`, stopped by the first failure
ConvertData(d, cnt, bad) ==
    [j \in 1..Len(d) |->
        IF bad = 0 \/ j < bad THEN <<d[j][1], LogOf(d[j][2], cnt)>> ELSE d[j]]

\* `if not self._loaded: self._load_data()`: the whole loading body
NgLoad ==
    /\ npc = "call"
    /\ ~loaded
    /\ LET rd == ReadLines(file, data, 0)
           bad == FirstBad(rd.data, rd.n)
           conv == ConvertData(rd.data, rd.n, bad)
           \* `k: str = ""`, then the last key the conversion loop visited
           k == IF conv = <<>> THEN <<>> ELSE conv[Len(conv)][1]
       IN  /\ data' = conv
           /\ nsum' = rd.n
           /\ IF bad # 0
              THEN /\ npc' = "raised"
                   /\ UNCHANGED <<ngram_len, floor, loaded>>
              ELSE /\ ngram_len' = Len(k)
                   \* log10(0.01 / n) raises for n <= 0
                   /\ IF rd.n <= 0
                      THEN /\ npc' = "raised"
                           /\ UNCHANGED <<floor, loaded>>
                      ELSE /\ floor' = LogOf(1, 100 * rd.n)
                           /\ loaded' = TRUE
                           /\ npc' = "loop"
    /\ UNCHANGED <<optVars, tables, wsvars, cpvars, vicvars, file, ntext, total, wi>>

\* faulty variant of NumWindows: the loop runs over every index of the text
NumWindows_EveryIndex(len, L) == len

\* the argument of `range(len(text) - self._ngram_len + 1)`
NumWindows(len, L) == len - L + 1

\* faulty variant of Lookup: the window is looked up as it stands in the text
Lookup_NoUpper(w) == DictGet(data, w, floor)

\* `self._data.get(ngram.upper(), self._floor)`
Lookup(w) == DictGet(data, Upper(w), floor)

\* one iteration of `for i in range(...)`: total += the value of one window
NgWindow ==
    /\ npc = "loop"
    /\ wi < NumWindows(Len(ntext), ngram_len)
    /\ total' = LogAdd(total, Lookup(Slice(ntext, wi, wi + ngram_len)))
    /\ wi' = wi + 1
    /\ UNCHANGED <<optVars, tables, wsvars, cpvars, vicvars, file, data, nsum, floor, ngram_len, loaded, ntext, npc>>

\* the range is exhausted: return total
NgReturn ==
    /\ npc = "loop"
    /\ wi >= NumWindows(Len(ntext), ngram_len)
    /\ npc' = "done"
    /\ UNCHANGED <<optVars, tables, wsvars, cpvars, vicvars, file, data, nsum, floor, ngram_len, loaded, ntext, total, wi>>

\* score(text) is called on a fresh scorer whose resource file is `file`
InitNgram ==
    /\ file \in Files
    /\ ntext \in Texts
    /\ data = <<>>
    /\ nsum = 0
    /\ floor = "NaN"
    /\ ngram_len = 0
    /\ loaded = FALSE
    /\ total = LogZero
    /\ wi = 0
    /\ npc = "call"

NextNgram == NgLoad \/ NgWindow \/ NgReturn

InitNgramCall == InitNoCall /\ InitLocals /\ InitTables /\ WordsIdle /\ CpwIdle /\ VicIdle /\ InitNgram

SpecNgram == InitNgramCall /\ [][NextNgram]_vars

\* ---------------------------------------- word scoring: the segmentation
\* _MAX_WORD_LEN of the scorer instance (the field's default is 20): a small
\* value, so that the cap binds on texts of the model's size
MAX_WORD_LEN == 2
\* the total count n of _load_data is 10 ^ NExp and every count of the lexicon
\* is a power of ten, so that every log10 is an integer
NExp == 3
\* len(self._unseen)
UnseenLen == 50

\* the words of the lexicon (keys are upper-cased when loaded) and the context
\* of the first word
Vocab == {<<"A">>, <<"B">>, <<"A", "B">>}
UNK == <<"<UNK>">>
\* log10(count / n) for the counts 10 and 100
PwVals == {1 - NExp, 2 - NExp}
\* log10(count / n) - _Pw.get(w1, 0): below and above the first-order values
Pw2Vals == {0 - NExp, 0}
\* the loaded tables: any first-order table over Vocab, and a second-order
\* table of at most one entry
PwTabs == UNION {[V -> PwVals] : V \in SUBSET Vocab}
Pw2Tabs == {<<>>} \cup UNION {[{<<p, w>>} -> Pw2Vals] : p \in Vocab \cup {UNK}, w \in Vocab}

\* self._unseen = [log10(10.0 / (self._n * 10**L)) for L in range(50)]
unseen == [L \in 0..(UnseenLen - 1) |-> 1 - NExp - L]

\* faulty variant of cPw: the second-order table is consulted first
cPw_BigramFirst(word, prev) ==
    IF <<prev, word>> \in DOMAIN Pw2
    THEN Pw2[<<prev, word>>]
    ELSE IF word \in DOMAIN Pw
         THEN Pw[word]
         ELSE unseen[Min(Len(word), UnseenLen - 1)]

\* _cPw(word, prev)
cPw(word, prev) ==
    IF word \notin DOMAIN Pw
    THEN unseen[Min(Len(word), UnseenLen - 1)]
    ELSE IF <<prev, word>> \in DOMAIN Pw2 THEN Pw2[<<prev, word>>] ELSE Pw[word]

\* float("-inf"): below every sum of the model
NegInf == 0 - 1000

\* L = min(self._MAX_WORD_LEN, n)
WordCap(t) == Min(MAX_WORD_LEN, Len(t))

\* word = text[i : i + j + 1]
WordAt(t, pos, j) == Slice(t, pos, pos + j + 1)

\* faulty variant of PrevWord: the first word of the previous segmentation
PrevWord_First(seg) == seg[1]

\* prev_word = segs[i - k - 1][k][-1]
PrevWord(seg) == seg[Len(seg)]

\* faulty variant of ExtendSeg: only the last word of the history is kept
ExtendSeg_DropsHistory(seg, word) == <<seg[Len(seg)], word>>

\* best_seg = segs[i - k - 1][k] + [word]
ExtendSeg(seg, word) == Append(seg, word)

\* faulty variant of Replaces: a later boundary also wins a tie
Replaces_OnTie(val, best_val) == val >= best_val

\* `if val > best_val`
Replaces(val, best_val) == val > best_val

\* Cell(t, pos, j) is <<prob[i][j], segs[i][j]>> for i = pos; Scan(t, pos, j, m) is
\* <<best_val, best_seg>> after the iterations k = 0..m-1 of the inner loop
RECURSIVE Cell(_, _, _), Scan(_, _, _, _)
Cell(t, pos, j) ==
    IF pos = 0
    THEN <<cPw(WordAt(t, 0, j), UNK), <<WordAt(t, 0, j)>>>>
    ELSE Scan(t, pos, j, Min(pos, WordCap(t)))
Scan(t, pos, j, m) ==
    IF m = 0
    THEN <<NegInf, <<>>>>
    ELSE LET acc == Scan(t, pos, j, m - 1)
             k == m - 1
             prev == Cell(t, pos - k - 1, k)
         IN  IF prev[1] = NegInf
             THEN acc
             ELSE LET val == prev[1] + cPw(WordAt(t, pos, j), PrevWord(prev[2]))
                  IN  IF Replaces(val, acc[1])
                      THEN <<val, ExtendSeg(prev[2], WordAt(t, pos, j))>>
                      ELSE acc

\* len(ends), for ends = [(prob[n - i - 1][i], segs[n - i - 1][i]) for i in range(min(n, L))]
NumEnds(t) == Min(Len(t), WordCap(t))

\* max(ends, key=lambda x: x[0]) over the first m elements of ends: the first maximum
RECURSIVE MaxByScore(_, _)
MaxByScore(t, m) ==
    LET end == Cell(t, Len(t) - m, m - 1)
    IN  IF m = 1
        THEN end
        ELSE LET b == MaxByScore(t, m - 1)
             IN  IF end[1] > b[1] THEN end ELSE b

\* word_analyze passes its text on; word_score and word_segments pass text.upper()
WsCall ==
    /\ wpc = "call"
    /\ wtext' = IF entry = "word_analyze" THEN warg ELSE Upper(warg)
    /\ wpc' = "analyze"
    /\ UNCHANGED <<optVars, tables, ngvars, cpvars, vicvars, entry, warg, Pw, Pw2, wres>>

\* analyze on a loaded scorer: return self._score_impl(text); max() of the
\* empty list raises ValueError
WsScoreImpl ==
    /\ wpc = "analyze"
    /\ IF NumEnds(wtext) = 0
       THEN /\ wpc' = "raised"
            /\ wres' = wres
       ELSE /\ wres' = MaxByScore(wtext, NumEnds(wtext))
            /\ wpc' = "done"
    /\ UNCHANGED <<optVars, tables, ngvars, cpvars, vicvars, entry, warg, wtext, Pw, Pw2>>

\* the texts given to the public word functions: every upper-case text, and
\* two texts with a lower-case letter
WordTexts == SeqsUpTo({"A", "B"}, MaxText) \cup {<<"a">>, <<"a", "B">>}

\* a public word function is called on a loaded scorer
InitWords ==
    /\ entry \in {"word_analyze", "word_score", "word_segments"}
    /\ warg \in WordTexts
    /\ wtext = <<>>
    /\ Pw \in PwTabs
    /\ Pw2 \in Pw2Tabs
    /\ wres = <<>>
    /\ wpc = "call"

NextWords == WsCall \/ WsScoreImpl

InitWordsCall == InitNoCall /\ InitLocals /\ InitTables /\ NgramIdle /\ CpwIdle /\ VicIdle /\ InitWords

SpecWords == InitWordsCall /\ [][NextWords]_vars

\* ----------------------------------------- word scoring: one call of _cPw
\* the words and the contexts a call is made with
CpwWords == SeqsUpTo({"A", "B"}, MAX_WORD_LEN)
CpwPrevs == Vocab \cup {UNK}

\* _cPw(word, prev) returns
CpwCall ==
    /\ cpc = "call"
    /\ cret' = cPw(cword, cprev)
    /\ cpc' = "done"
    /\ UNCHANGED <<optVars, tables, ngvars, wsvars, vicvars, cword, cprev>>

\* a loaded scorer and the arguments of one call
InitCpw ==
    /\ entry = "none"
    /\ warg = <<>>
    /\ wtext = <<>>
    /\ Pw \in PwTabs
    /\ Pw2 \in Pw2Tabs
    /\ wres = <<>>
    /\ wpc = "idle"
    /\ cword \in CpwWords
    /\ cprev \in CpwPrevs
    /\ cret = 0
    /\ cpc = "call"

NextCpw == CpwCall

InitCpwCall == InitNoCall /\ InitLocals /\ InitTables /\ NgramIdle /\ VicIdle /\ InitCpw

SpecCpw == InitCpwCall /\ [][NextCpw]_vars

\* ------------------------------------ VIC fill / unfill (disrupted.py)
MaxKeyLen == 3      \* length of the key: 1..MaxKeyLen
MaxVicText == 7     \* length of the plaintext: 0..MaxVicText

\* the keys are the permutations of 0..len(key)-1, as lists
VicKeys ==
    UNION {{k \in [1..n -> 0..(n - 1)] :
                \A a, b \in 1..n : a # b => k[a] # k[b]} : n \in 1..MaxKeyLen}

\* the texts: the fillers only move characters, so a text is modelled with
\* pairwise different characters, each character being its own position
VicTexts == {[p \in 1..n |-> p] : n \in 0..MaxVicText}

\* rows = int(ceil(len(plaintext) / len(key)))
VicRows(ky, pt) == (Len(pt) + Len(ky) - 1) \div Len(ky)

\* last = len(plaintext) % len(key)
VicLast(ky, pt) == Len(pt) % Len(ky)

\* key.index(n)
KeyIndex(ky, n) == (CHOOSE p \in 1..Len(ky) : ky[p] = n) - 1

\* <<n, j>> at the start of the loop body for the given row (from 0)
RECURSIVE VicState(_, _)
VicState(ky, row) ==
    IF row = 0
    THEN <<0, KeyIndex(ky, 0)>>
    ELSE LET s == VicState(ky, row - 1)
         IN  IF s[2] = Len(ky)
             THEN LET n2 == IF s[1] + 1 >= Len(ky) THEN 0 ELSE s[1] + 1
                  IN  <<n2, KeyIndex(ky, n2)>>
             ELSE <<s[1], s[2] + 1>>

\* the number of characters the first loop of _vic_fill puts in a row
HeadLen(ky, pt, row) ==
    IF row = VicRows(ky, pt) - 1 THEN VicLast(ky, pt) ELSE VicState(ky, row)[2]

\* the characters the iterator has given out before the first loop reaches
\* the row
RECURSIVE HeadOff(_, _, _)
HeadOff(ky, pt, row) ==
    IF row = 0 THEN 0
    ELSE HeadOff(ky, pt, row - 1) + HeadLen(ky, pt, row - 1)

\* the second loop of _vic_fill: <<characters given to the rows before this
\* one, characters given to this row>>; a row is filled up to len(key) while
\* characters are left
RECURSIVE TailFill(_, _, _)
TailFill(ky, pt, row) ==
    LET left == Len(pt) - HeadOff(ky, pt, VicRows(ky, pt))
        before == IF row = 0 THEN 0
                  ELSE LET q == TailFill(ky, pt, row - 1) IN q[1] + q[2]
    IN  <<before, Min(Len(ky) - HeadLen(ky, pt, row), left - before)>>

\* filled[row] when _vic_fill returns
FilledRow(ky, pt, row) ==
    LET h == HeadOff(ky, pt, row)
        tf == TailFill(ky, pt, row)
        rest == HeadOff(ky, pt, VicRows(ky, pt))
    IN  Slice(pt, h, h + HeadLen(ky, pt, row))
            \o Slice(pt, rest + tf[1], rest + tf[1] + tf[2])

\* "".join(filled[0:m])
RECURSIVE JoinFilled(_, _, _)
JoinFilled(ky, pt, m) ==
    IF m = 0 THEN <<>>
    ELSE JoinFilled(ky, pt, m - 1) \o FilledRow(ky, pt, m - 1)

\* _vic_fill(key, plaintext)
vic_fill(ky, pt) == JoinFilled(ky, pt, VicRows(ky, pt))

\* the characters _vic_unfill reads for a row: `last` characters for the
\* last row, len(key) characters for every other row
UnfillRow(ky, tx, row) ==
    IF row = VicRows(ky, tx) - 1
    THEN Slice(tx, row * Len(ky), row * Len(ky) + VicLast(ky, tx))
    ELSE Slice(tx, row * Len(ky), row * Len(ky) + Len(ky))

\* what the row appends to h1: the whole last row, else row[:j]
H1Part(ky, tx, row) ==
    IF row = VicRows(ky, tx) - 1
    THEN UnfillRow(ky, tx, row)
    ELSE Slice(UnfillRow(ky, tx, row), 0, VicState(ky, row)[2])

\* what the row appends to h2: nothing for the last row, else row[j:]
H2Part(ky, tx, row) ==
    IF row = VicRows(ky, tx) - 1
    THEN <<>>
    ELSE Slice(UnfillRow(ky, tx, row), VicState(ky, row)[2], Len(ky))

\* "".join(h1) and "".join(h2) over the first m rows
RECURSIVE JoinH1(_, _, _)
JoinH1(ky, tx, m) ==
    IF m = 0 THEN <<>> ELSE JoinH1(ky, tx, m - 1) \o H1Part(ky, tx, m - 1)

RECURSIVE JoinH2(_, _, _)
JoinH2(ky, tx, m) ==
    IF m = 0 THEN <<>> ELSE JoinH2(ky, tx, m - 1) \o H2Part(ky, tx, m - 1)

\* _vic_unfill(key, text)
vic_unfill(ky, tx) ==
    JoinH1(ky, tx, VicRows(ky, tx)) \o JoinH2(ky, tx, VicRows(ky, tx))

\* VIC.fill(key, plaintext) returns
VicFill ==
    /\ vpc = "call"
    /\ vfilled' = vic_fill(vkey, vtext)
    /\ vpc' = "filled"
    /\ UNCHANGED <<optVars, tables, ngvars, wsvars, cpvars, vkey, vtext, vout>>

\* VIC.unfill(key, filled) returns
VicUnfill ==
    /\ vpc = "filled"
    /\ vout' = vic_unfill(vkey, vfilled)
    /\ vpc' = "done"
    /\ UNCHANGED <<optVars, tables, ngvars, wsvars, cpvars, vkey, vtext, vfilled>>

\* a key and a text are given to the filler
InitVic ==
    /\ vkey \in VicKeys
    /\ vtext \in VicTexts
    /\ vfilled = <<>>
    /\ vout = <<>>
    /\ vpc = "call"

NextVic == VicFill \/ VicUnfill

InitVicCall == InitNoCall /\ InitLocals /\ InitTables /\ NgramIdle /\ WordsIdle /\ CpwIdle /\ InitVic

SpecVic == InitVicCall /\ [][NextVic]_vars

\* ------------------------------------------------------------- claims
\* the score of the returned text, and whether the returned pair is one that
\* decrypt produces
ResultScore == score[result[1]]
ResultObserved ==
    /\ result[2] \in Keys
    /\ decrypt[result[2]] = result[1]
    /\ result[1] \notin scoreErr

\* C1: whenever anneal returns (text, key), the pair was produced by a
\* successful decrypt and its score is at least the score of every candidate
\* decrypted and scored during the run, accepted or rejected.
C1_AnnealReturnsBestObserved ==
    (call = "anneal" /\ pc = "done") =>
        /\ ResultObserved
        /\ result = <<best[2], best[3]>>
        /\ ResultScore = best[1]
        /\ ResultScore >= seenMax

\* anneal returned after it had accepted a candidate worse than its best
C1_Witness ==
    /\ call = "anneal"
    /\ pc = "done"
    /\ current[1] < best[1]
    /\ seenMax = best[1]

\* C2: hill_climb returns the globally best candidate: its score is at least
\* the best score of every restart and of every candidate scored in any sweep,
\* and a later restart replaces the kept result only with a strictly higher score.
C2_HillReturnsGlobalBest ==
    /\ [](call = "hill_climb" /\ pc = "done" =>
            /\ ResultObserved
            /\ result = <<top[2], top[3]>>
            /\ ResultScore = top[1]
            /\ ResultScore >= seenMax)
    /\ [][call = "hill_climb" /\ r' = r + 1 =>
            /\ top'[1] >= best[1]
            /\ top'[1] >= top[1]
            /\ top' \in {top, best}
            /\ (r > 0 /\ top' # top => top'[1] > top[1])]_vars

\* a later restart has replaced the kept result
C2_Witness == call = "hill_climb" /\ ev = "new_top" /\ r = 2

\* C3: a decrypt failure on a mutated candidate inside the search loop is
\* skipped: the tracked state is unchanged, the loop moves to the next
\* candidate, and the failure does not leave the optimizer.
C3_DecryptFailureSkipped ==
    [][(pc \in {"loop", "scan"} /\ ev' = "skip_decrypt") =>
            /\ pc' = pc
            /\ current' = current /\ best' = best
            /\ best_i' = best_i /\ key' = key /\ top' = top
            /\ (call = "anneal" => i' = i + 1)
            /\ (call = "hill_climb" => nbrs' = Tail(nbrs))]_vars

\* hill_climb skipped a neighbour in the middle of a sweep that had already
\* adopted another neighbour
C3_Witness ==
    /\ call = "hill_climb"
    /\ pc = "scan"
    /\ ev = "skip_decrypt"
    /\ best_i # best

\* C4: the initial-key procedure replaces every key whose decryption fails or
\* yields empty plaintext by a fresh key_gen call, and the search loop starts
\* with a key that decrypts to non-empty text.
C4_InitialKeyReplaced ==
    /\ [](pc \in {"loop", "sweep", "scan"} => key \in Keys /\ decrypt[key] \notin {Raises, ""})
    /\ [][(pc = "init" /\ text = "" /\ decrypt[key] \in {Raises, ""}) => ev' = "key_gen"]_vars

\* C7: in anneal the tracked best score never decreases, and best is replaced
\* only by the accepted candidate, whose score is strictly greater.
C7_AnnealBestMonotone ==
    [][call = "anneal" =>
            /\ best'[1] >= best[1]
            /\ (pc = "loop" /\ best' # best => best'[1] > best[1] /\ best' = current')]_vars

\* anneal has replaced best by a mutated candidate
C7_Witness == call = "anneal" /\ ev = "new_best" /\ best = current

\* no neighbour of key k that decrypts and scores has a score above sc
LocalOptimum(k, sc) ==
    \A j \in 1..Len(Mutate(k)) :
        LET n == Mutate(k)[j]
        IN  (decrypt[n] # Raises /\ decrypt[n] \notin scoreErr) => score[decrypt[n]] <= sc

\* C8 as stated: with try_all=True hill_climb always returns a local optimum.
C8_SteepestLocalOptimum ==
    (call = "hill_climb" /\ try_all /\ pc = "done") => LocalOptimum(result[2], ResultScore)

\* C8 amended: with try_all=True the returned key is a local optimum when the
\* restart that produced it ended by a sweep without improvement (and not by
\* exhausting `iterations`).
C8_SteepestLocalOptimumUnlessCapped ==
    (call = "hill_climb" /\ try_all /\ pc = "done" /\ ended = "no_improvement") =>
        LocalOptimum(result[2], ResultScore)

\* steepest ascent climbed at least once and then stopped at a sweep without improvement
C8_Witness ==
    /\ call = "hill_climb" /\ try_all /\ pc = "done"
    /\ ended = "no_improvement"
    /\ restarts <= 1
    /\ mutCalls >= 2

\* C9: no step of anneal is executed after the first index at which the
\* temperature is below the stop threshold.
C9_NoStepAfterCold ==
    (call = "anneal" /\ pc = "loop" /\ i < max_steps) => \A j \in 0..(i - 1) : ~Cold(j)

\* C10: a scorer failure on a mutated candidate inside the search loop never
\* leaves the optimizer.
C10_ScorerFailureAbsorbed == pc = "raised" => ev # "loop_score_raise"

\* where a thread is while it executes the loading body of _load_data
LoadingPcs == {"read", "read2", "convert", "publish"}
\* every field the scoring code reads has been written by a complete load
Written(t) ==
    IF t \in NgramTables
    THEN /\ ngram[t].data \in {"log", "corrupt"}
         /\ ngram[t].floor = "log"
         /\ ngram[t].ngram_len = Order(t)
    ELSE /\ words.Pw \in {"log", "corrupt"}
         /\ words.Pw2 \in {"log", "corrupt"}
         /\ words.unseen = "log"

\* C5: for threads that call score concurrently on the same unloaded table,
\* the loading body of _load_data is executed exactly once: no table's
\* resource is read by a second pass.
C5_ExactlyOneLoadPass == \A t \in Tables : loads[t] <= 1

\* C6: no thread computes a score from a table that is being loaded: the
\* table fields are read only after a complete load has written all of them
\* and while no thread is loading that table, so the threads that score the
\* same table computed from the same fields.
C6_NoPartiallyLoadedReads ==
    \A th \in Threads :
        /\ tpc[th] = "score" =>
              /\ Loaded(tab[th])
              /\ Written(tab[th])
              /\ \A o \in Threads : ~(tab[o] = tab[th] /\ tpc[o] \in LoadingPcs)
        /\ tpc[th] = "done" =>
              /\ ret[th] = Fields(tab[th])
              /\ \A o \in Threads : (tpc[o] = "done" /\ tab[o] = tab[th]) => ret[o] = ret[th]

\* a thread is about to score while another one, which passed the unlocked
\* check before the load was published, holds the lock of the same table
C6_Witness ==
    \E a, b \in Threads :
        /\ a # b
        /\ tab[a] = tab[b]
        /\ tpc[a] = "score"
        /\ tpc[b] = "locked"

\* C16: a load attempt that fails part-way is fatal: the error reaches the
\* caller and the table stays marked not-loaded; the loading body is never
\* started again for a table on which an attempt has failed; and no call
\* returns a score computed from entries that a failed attempt left behind.
C16_FailedLoadIsFatal ==
    /\ [][\A th \in Threads :
            (tpc[th] \in {"read", "read2"} /\ tpc'[th] \notin {"read", "read2", "convert"}) =>
                tpc'[th] = "raised" /\ ~Loaded(tab[th])' /\ lock'[LockOf(tab[th])] = 0]_vars
    /\ [][\A th \in Threads :
            (tpc[th] = "locked" /\ tpc'[th] = "read") =>
                \A o \in Threads : ~(tpc[o] = "raised" /\ tab[o] = tab[th])]_vars
    /\ [](\A th \in Threads :
            tpc[th] = "done" =>
                IF tab[th] \in NgramTables
                THEN ret[th][2] = "log"
                ELSE ret[th][1] = "log" /\ ret[th][2] = "log")

\* C17: hill_climb runs exactly `restarts` restarts: when it returns, the
\* initial-key procedure has been started `restarts` times.
C17_ExactlyRestartsRestarts ==
    (call = "hill_climb" /\ pc = "done") => r = restarts

\* C18: over one whole hill_climb call, mutate is invoked at most
\* `iterations` times.
C18_MutateCallsBounded ==
    call = "hill_climb" => mutCalls <= iterations

\* two logs are equal when their quotients are
LogEq(x, y) == x[1] * y[2] = y[1] * x[2]

\* C14: on a loaded table the n-gram scorer returns 0 for every text shorter
\* than the table's order, the empty text included: the scoring loop visits
\* no window, adds nothing to the initial 0.0 and does not fail.
C14_ShortTextScoresZero ==
    (loaded /\ Len(ntext) < ngram_len) =>
        /\ npc \in {"loop", "done"}
        /\ wi = 0
        /\ total = LogZero

\* score has returned for a non-empty text that is shorter than the order
C14_Witness ==
    /\ npc = "done"
    /\ loaded
    /\ ngram_len = 2
    /\ Len(ntext) = 1

\* the value the table gives to a window: its entry for the upper-cased
\* window, floor when it has none
TableValue(w) ==
    IF \E j \in 1..Len(data) : data[j][1] = Upper(w)
    THEN data[CHOOSE j \in 1..Len(data) : data[j][1] = Upper(w)][2]
    ELSE floor

\* the sum of the values of the first m windows of ntext
RECURSIVE WindowSum(_)
WindowSum(m) ==
    IF m = 0
    THEN LogZero
    ELSE LogAdd(WindowSum(m - 1), TableValue(SubSeq(ntext, m, m + ngram_len - 1)))

\* C15: for a text of length n >= L the returned score is the sum over the
\* n - L + 1 windows text[i:i+L], i = 0..n-L, of the tabulated value of the
\* upper-cased window when the table has it and of floor otherwise, and the
\* loop has visited exactly n - L + 1 windows.
C15_ScoreAdditiveOverWindows ==
    (npc = "done" /\ Len(ntext) >= ngram_len) =>
        /\ wi = Len(ntext) - ngram_len + 1
        /\ LogEq(total, WindowSum(Len(ntext) - ngram_len + 1))

\* a text that is not upper-case was scored over two windows, one of which
\* the table has (after upper-casing) and one of which it has not
C15_Witness ==
    /\ npc = "done"
    /\ wi = 2
    /\ ntext # Upper(ntext)
    /\ \E a, b \in 1..2 :
          /\ DictHas(data, Upper(SubSeq(ntext, a, a + 1)))
          /\ ~DictHas(data, Upper(SubSeq(ntext, b, b + 1)))

\* the sum of the raw counts of the entries of a converted table
RECURSIVE SumCounts(_)
SumCounts(d) == IF d = <<>> THEN 0 ELSE d[1][2][1] + SumCounts(Tail(d))

\* C19: in every loaded n-gram table the probabilities sum to 1: the
\* normalising total N equals the sum of the raw counts of the entries kept.
C19_ProbabilitiesSumToOne ==
    loaded => /\ \A j \in 1..Len(data) : data[j][2][2] = nsum
              /\ SumCounts(data) = nsum

\* C20: in every loaded n-gram table floor is strictly lower than every
\* tabulated value: 0.01 / N < c / N for each entry with raw count c.
C20_FloorBelowEveryEntry ==
    loaded => /\ floor = LogOf(1, 100 * nsum)
              /\ \A j \in 1..Len(data) : LogLess(floor, data[j][2])

\* a table of two entries, one with the lowest count that can be stored
C20_Witness ==
    /\ loaded
    /\ Len(data) = 2
    /\ \E j \in 1..2 : data[j][2][1] = 1

\* the ways of cutting a text of length len into consecutive words of length
\* 1..cap, as the sequences of the word lengths
RECURSIVE SumSeq(_)
SumSeq(c) == IF c = <<>> THEN 0 ELSE c[1] + SumSeq(Tail(c))
Cuts(len, cap) == {c \in SeqsUpTo(1..cap, len) : SumSeq(c) = len}
\* the words of text t cut at the lengths c
WordsOf(t, c) ==
    [m \in 1..Len(c) |-> SubSeq(t, SumSeq(SubSeq(c, 1, m - 1)) + 1, SumSeq(SubSeq(c, 1, m)))]
\* cPw(w1, "<UNK>") plus cPw(w_t, w_{t-1}) for the following words, summed in order
RECURSIVE SegScore(_)
SegScore(ws) ==
    IF Len(ws) = 1
    THEN cPw(ws[1], UNK)
    ELSE SegScore(SubSeq(ws, 1, Len(ws) - 1)) + cPw(ws[Len(ws)], ws[Len(ws) - 1])
\* the words of a segmentation, concatenated in order
RECURSIVE Concat(_)
Concat(ws) == IF ws = <<>> THEN <<>> ELSE ws[1] \o Concat(Tail(ws))

\* C11: the segmentation DP is optimal: for a non-empty text the returned
\* score is the maximum of the segmentation scores over all cuts of the text
\* into words of length 1..min(_MAX_WORD_LEN, len(text)), and the returned
\* segmentation is one of these cuts and has that score.
C11_SegmentationOptimal ==
    wpc = "done" =>
        /\ \A c \in Cuts(Len(wtext), WordCap(wtext)) : SegScore(WordsOf(wtext, c)) <= wres[1]
        /\ \E c \in Cuts(Len(wtext), WordCap(wtext)) : WordsOf(wtext, c) = wres[2]
        /\ SegScore(wres[2]) = wres[1]

\* a text longer than the word cap was cut into several words, the best cut
\* uses the entry of the second-order table, and another cut scores less
C11_Witness ==
    /\ wpc = "done"
    /\ Len(wtext) > MAX_WORD_LEN
    /\ Len(wres[2]) = 2
    /\ <<wres[2][1], wres[2][2]>> \in DOMAIN Pw2
    /\ \E c \in Cuts(Len(wtext), WordCap(wtext)) : SegScore(WordsOf(wtext, c)) < wres[1]

\* C12: for a non-empty upper-case text the words of the returned
\* segmentation are non-empty and, concatenated in order, equal the text.
C12_SegmentsConcatToText ==
    (wpc = "done" /\ warg = Upper(warg)) =>
        /\ Concat(wres[2]) = warg
        /\ \A m \in 1..Len(wres[2]) : wres[2][m] # <<>>

\* word_segments cut an upper-case text into three words
C12_Witness ==
    /\ wpc = "done"
    /\ entry = "word_segments"
    /\ warg = Upper(warg)
    /\ Len(wres[2]) = 3

\* C13: analyze on the empty text returns score 0 and an empty segmentation;
\* it does not fail.
C13_EmptyTextScoresZero ==
    (wtext = <<>> /\ wpc \in {"done", "raised"}) =>
        /\ wpc = "done"
        /\ wres = <<0, <<>>>>

\* the neighbours of key k that decrypt and score, in the order of mutate(k)
Scorable(k) ==
    SelectSeq(Mutate(k), LAMBDA nk : decrypt[nk] # Raises /\ decrypt[nk] \notin scoreErr)
\* the first neighbour in sequence ns whose score is the highest of ns
FirstMax(ns) ==
    ns[CHOOSE a \in 1..Len(ns) :
            /\ \A b \in 1..Len(ns) : score[decrypt[ns[b]]] <= score[decrypt[ns[a]]]
            /\ \A b \in 1..(a - 1) : score[decrypt[ns[b]]] < score[decrypt[ns[a]]]]
\* the first neighbour in sequence ns whose score is above sc (0 when none is)
FirstAbove(ns, sc) ==
    IF \E a \in 1..Len(ns) : score[decrypt[ns[a]]] > sc
    THEN ns[CHOOSE a \in 1..Len(ns) :
                /\ score[decrypt[ns[a]]] > sc
                /\ \A b \in 1..(a - 1) : score[decrypt[ns[b]]] <= sc]
    ELSE 0

\* C24: at the end of a try_all=True sweep the adopted neighbour is the
\* first highest-scoring neighbour of mutate(key) that decrypts and scores,
\* adopted only if it scores strictly above the best held at the start of
\* the sweep; during the scan the best-of-sweep is only replaced by a
\* strictly higher score.
C24_SteepestSweepAdoptsMaximum ==
    /\ [](call = "hill_climb" /\ try_all /\ pc = "scan" /\ nbrs = <<>> =>
            LET ns == Scorable(best[3])
            IN  IF ns # <<>> /\ score[decrypt[FirstMax(ns)]] > best[1]
                THEN best_i = Cand(decrypt[FirstMax(ns)], FirstMax(ns))
                ELSE best_i = best)
    /\ [][(call = "hill_climb" /\ try_all /\ pc = "scan" /\ best_i' # best_i /\ pc' = "scan") =>
            best_i'[1] > best_i[1]]_vars

\* a steepest sweep over two scorable neighbours ended with the second one adopted
C24_Witness ==
    /\ call = "hill_climb" /\ try_all /\ pc = "scan" /\ nbrs = <<>>
    /\ Len(Scorable(best[3])) = 2
    /\ best_i[3] = Scorable(best[3])[2]

\* C25: at the end of a try_all=False sweep the adopted neighbour is the
\* first one, in the order of mutate(key), that decrypts and scores strictly
\* above the restart's best, and its adoption ends the scan: no later
\* neighbour of that sweep is decrypted or scored.
C25_FirstImprovementEndsSweep ==
    /\ [](call = "hill_climb" /\ ~try_all /\ pc = "scan" /\ nbrs = <<>> =>
            LET first == FirstAbove(Scorable(best[3]), best[1])
            IN  IF first # 0
                THEN best_i = Cand(decrypt[first], first)
                ELSE best_i = best)
    /\ [][(call = "hill_climb" /\ ~try_all /\ pc = "scan" /\ ev' = "adopt") => nbrs' = <<>>]_vars

\* a first-improvement sweep adopted its first neighbour although the
\* second one, which was not scanned, scores higher
C25_Witness ==
    /\ call = "hill_climb" /\ ~try_all /\ pc = "scan" /\ ev = "adopt"
    /\ Len(Scorable(best[3])) = 2
    /\ best_i[3] = Scorable(best[3])[1]
    /\ score[decrypt[Scorable(best[3])[2]]] > best_i[1]

\* C26: anneal's search loop runs at most max_steps iterations: every
\* iteration, one whose decryption fails included, advances the step count,
\* so mutate is called at most max_steps times.
C26_AnnealStepsBounded ==
    /\ [](call = "anneal" => mutCalls <= max_steps /\ i <= max_steps)
    /\ [][(call = "anneal" /\ mutCalls' = mutCalls + 1) => (i' = i + 1 \/ pc' # "loop")]_vars

\* anneal used up all its steps and the last one was a failed decryption
C26_Witness ==
    /\ call = "anneal"
    /\ pc = "loop"
    /\ ev = "skip_decrypt"
    /\ max_steps = MaxSteps
    /\ mutCalls = max_steps

\* C30: whenever a hill_climb sweep starts, the key passed to mutate is the
\* key of the restart's current best candidate, in both try_all modes.
C30_SweepKeyIsBestKey ==
    /\ [](call = "hill_climb" /\ pc = "sweep" => key = best[3])
    /\ [][(call = "hill_climb" /\ pc = "sweep" /\ pc' = "scan") => nbrs' = Mutate(best[3])]_vars

\* a second sweep starts from a key adopted in the first one
C30_Witness ==
    /\ call = "hill_climb"
    /\ pc = "sweep"
    /\ it = 1
    /\ it < iterations
    /\ ev = "sweep_end"

\* C22: every public word function scores the case-folded text: what
\* _score_impl returns for a text is what it returns for the upper-cased text.
C22_EntryPointsFoldCase ==
    wpc = "done" => wres = MaxByScore(Upper(warg), NumEnds(Upper(warg)))

\* the candidate value of previous boundary k for the cell (pos, j) of text t
CandVal(t, pos, j, k) ==
    LET prev == Cell(t, pos - k - 1, k)
    IN  prev[1] + cPw(WordAt(t, pos, j), prev[2][Len(prev[2])])
\* the smallest previous boundary whose candidate value is the highest
FirstBestK(t, pos, j) ==
    CHOOSE k \in 0..(Min(pos, WordCap(t)) - 1) :
        LET v == CandVal(t, pos, j, k)
        IN  /\ \A h \in 0..(k - 1) : CandVal(t, pos, j, h) < v
            /\ \A h \in (k + 1)..(Min(pos, WordCap(t)) - 1) : CandVal(t, pos, j, h) <= v
\* the cells (pos, j) of text t that the DP fills from previous boundaries
InnerCells(t) ==
    {c \in (1..(Len(t) - 1)) \X (0..(WordCap(t) - 1)) : c[2] < Min(WordCap(t), Len(t) - c[1])}

\* C27: every cell of the segmentation DP holds the candidate of the
\* smallest previous boundary k among those with the highest candidate
\* value: a later k replaces an earlier one only with a strictly greater value.
C27_TieKeepsSmallerK ==
    wpc = "done" =>
        \A c \in InnerCells(wtext) :
            LET k == FirstBestK(wtext, c[1], c[2])
            IN  Cell(wtext, c[1], c[2]) =
                    <<CandVal(wtext, c[1], c[2], k),
                      Append(Cell(wtext, c[1] - k - 1, k)[2], WordAt(wtext, c[1], c[2]))>>

\* the returned segmentation ends in a cell for which two previous
\* boundaries tie, and it continues the one with the shorter previous word
C27_Witness ==
    /\ wpc = "done"
    /\ Len(wres[2]) >= 2
    /\ LET last == wres[2][Len(wres[2])]
           pos == Len(wtext) - Len(last)
           j == Len(last) - 1
       IN  /\ pos >= 2
           /\ CandVal(wtext, pos, j, 0) = CandVal(wtext, pos, j, 1)
           /\ wres[1] = CandVal(wtext, pos, j, 0)
           /\ Len(wres[2][Len(wres[2]) - 1]) = 1

\* C21: cPw(word, prev) follows a fixed precedence: a word absent from the
\* first-order table gets unseen[min(len(word), len(unseen) - 1)] even when
\* the second-order table has an entry "prev word"; otherwise the stored
\* second-order value when "prev word" is in that table; otherwise the
\* first-order value of the word.
C21_cPwPrecedence ==
    cpc = "done" =>
        /\ cword \notin DOMAIN Pw =>
               cret = unseen[Min(Len(cword), UnseenLen - 1)]
        /\ (cword \in DOMAIN Pw /\ <<cprev, cword>> \in DOMAIN Pw2) =>
               cret = Pw2[<<cprev, cword>>]
        /\ (cword \in DOMAIN Pw /\ <<cprev, cword>> \notin DOMAIN Pw2) =>
               cret = Pw[cword]

\* a call returned for a word that is not in the first-order table while the
\* second-order table holds "prev word" with a different value
C21_Witness ==
    /\ cpc = "done"
    /\ cword \notin DOMAIN Pw
    /\ <<cprev, cword>> \in DOMAIN Pw2
    /\ cret # Pw2[<<cprev, cword>>]

\* C23: VIC unfill is the inverse of VIC fill: for every key that is a
\* permutation of 0..len(key)-1 and every text,
\* _vic_unfill(key, _vic_fill(key, text)) == text (and with it the disrupted
\* decrypt of an encrypt gives the text back).
C23_UnfillInvertsFill ==
    vpc = "done" => vout = vtext

\* C28: once a table is marked loaded no call modifies any of its fields or
\* its loaded flag, and a call that finds the table loaded goes on to score
\* without acquiring the lock.
C28_LoadedTableIsReadOnly ==
    [][/\ \A t \in NgramTables : ngram[t].loaded => ngram'[t] = ngram[t]
       /\ words.loaded => words' = words
       /\ \A th \in Threads :
             (tpc[th] \in {"check", "score"} /\ Loaded(tab[th])) =>
                 /\ tpc'[th] \in {"check", "score", "done"}
                 /\ lock'[LockOf(tab[th])] # th]_vars

\* a thread makes a call on a table that another thread has loaded and
\* scored with
C28_Witness ==
    \E th \in Threads, o \in Threads :
        /\ th # o
        /\ tab[th] = tab[o]
        /\ tpc[o] = "done"
        /\ tpc[th] = "check"
        /\ Loaded(tab[th])

\* a thread that is outside the `with self._lock:` block holds no lock
LockFreeOutside ==
    \A th \in Threads :
        tpc[th] \in {"idle", "check", "acquire", "score", "done", "raised"} =>
            \A l \in DOMAIN lock : lock[l] # th

\* C29: under fair scheduling every thread that calls score (on an unloaded
\* table in particular) eventually returns or raises; the lock is released
\* when the load completes and when it fails, and first uses of different
\* n-gram tables, which share one lock, are serialised without deadlock.
C29_EveryCallEnds ==
    /\ []LockFreeOutside
    /\ \A th \in Threads :
          (tpc[th] = "check") ~> (tpc[th] \in {"done", "raised"})

\* a thread waits for the shared n-gram lock while another thread, which
\* holds it, loads a different n-gram table
C29_Witness ==
    \E th \in Threads, o \in Threads :
        /\ tpc[th] = "acquire"
        /\ tab[th] \in NgramTables
        /\ tab[o] \in NgramTables
        /\ tab[th] # tab[o]
        /\ lock[LockOf(tab[th])] = o
        /\ tpc[o] \in {"read", "convert", "publish"}


====
